---- MODULE Spec2Model ----
(***************************************************************************)
(* Model of src/app.py, the invoice form: the totals computation           *)
(* (money, compute_totals), the SQLite store (init_db, upsert_invoice,     *)
(* fetch_invoices_df, fetch_invoice_full) and the Streamlit script's       *)
(* handlers (add / remove / reset of draft items, Save Invoice, the        *)
(* listing filters, View Invoice).                                         *)
(*                                                                         *)
(* Representation.                                                         *)
(*  - A Python str is a sequence of one-character strings, so that strip,  *)
(*    lower-casing and pattern search are computed, not assumed.           *)
(*  - Money is an integer number of cents, a quantity an integer number of *)
(*    tenths (QtyScale), a tax rate an integer percentage.  The floats of  *)
(*    the program carry such values exactly enough: every value the model  *)
(*    rounds lies on a grid of 1/10000 dollar, the binary error of a float *)
(*    there is below 1e-12 and money's epsilon is 1e-7.                    *)
(*  - A date is <<year, month, day>>; its ISO text "YYYY-MM-DD" is ordered *)
(*    as the triple is (zero padded fields).                               *)
(*  - Python's None is the value None, outside every numeric domain.       *)
(***************************************************************************)
EXTENDS Integers, Sequences, FiniteSets, TLC

VARIABLES
    db,             \* invoice.db: tables invoices and items, sqlite_sequence
    session_items,  \* st.session_state["items"], the draft item list
    message,        \* what the Save Invoice handler showed in this script run
    q,              \* widget "Search text"
    from_dt,        \* widget "From date" (<<>> when not given)
    to_dt,          \* widget "To date" (<<>> when not given)
    invoices_df,    \* the listing shown by this script run
    sel_id,         \* widget "Choose Invoice ID" (0 is "-")
    view,           \* what View Invoice fetched in this script run
    args,           \* compute_totals: the arguments of a call
    ret             \* compute_totals: what the call returned (<<>> before it)

vars == <<db, session_items, message, q, from_dt, to_dt, invoices_df, sel_id,
          view, args, ret>>

----------------------------------------------------------------------------
(* Bounds and scales *)

\* Longest draft item list (and longest item list given to compute_totals).
MaxItems == 2

\* Quantities are counted in tenths: 5 is the float 0.5.
QtyScale == 10

\* Python's None.
None == -1000000

----------------------------------------------------------------------------
(* Python strings *)

RECURSIVE rstrip(_)
\* str.rstrip(): trailing whitespace removed.
rstrip(s) ==
    IF s = <<>> THEN s
    ELSE IF s[Len(s)] = " " THEN rstrip(SubSeq(s, 1, Len(s) - 1)) ELSE s

RECURSIVE lstrip(_)
\* str.lstrip(): leading whitespace removed.
lstrip(s) ==
    IF s = <<>> THEN s
    ELSE IF Head(s) = " " THEN lstrip(Tail(s)) ELSE s

\* str.strip(): leading and trailing whitespace removed.
strip(s) == rstrip(lstrip(s))

\* str.lower() on one character.
lower(c) ==
    CASE c = "A" -> "a"
      [] c = "B" -> "b"
      [] c = "J" -> "j"
      [] c = "O" -> "o"
      [] OTHER -> c

\* re.search(pat, s, re.IGNORECASE) for a pattern of literal characters and
\* ".", which matches any character: pandas' Series.str.contains(pat,
\* case=False) takes pat as a regular expression (regex=True by default).
str_contains(s, pat) ==
    \E i \in 1..(Len(s) - Len(pat) + 1) :
        \A k \in 1..Len(pat) :
            \/ pat[k] = "."
            \/ lower(pat[k]) = lower(s[i + k - 1])

----------------------------------------------------------------------------
(* Totals engine *)

\* Python's "x or 0": None and 0 both give 0.
Or0(x) == IF x = None THEN 0 ELSE x

\* dict.get(key, default)
Get(d, key, default) == IF key \in DOMAIN d THEN d[key] ELSE default

\* money(x) for x = num/den cents (den > 0): float(round(x + 0.0000001, 2)).
\* round() takes the nearest cent; the epsilon moves an exact half cent, and
\* nothing else on the model's grid, above the half, so ties go up.
money(num, den) == (2 * num + den) \div (2 * den)

RECURSIVE SumProducts(_)
\* sum((i.get("quantity", 0) or 0) * (i.get("unit_price", 0) or 0) for i in items),
\* in cents/QtyScale.
SumProducts(items) ==
    IF items = <<>> THEN 0
    ELSE Or0(Get(Head(items), "quantity", 0)) * Or0(Get(Head(items), "unit_price", 0))
         + SumProducts(Tail(items))

Min(a, b) == IF a <= b THEN a ELSE b
Max(a, b) == IF a >= b THEN a ELSE b

\* compute_totals with the discount clamp left out.
compute_totals_noclamp(items, discount, tax_rate) ==
    LET subtotal == money(SumProducts(items), QtyScale)
        discount_amount == money(Or0(discount), 1)
        taxable == subtotal - discount_amount
        tax_amount == money(taxable * Or0(tax_rate), 100)
        total == money(taxable + tax_amount, 1)
    IN  <<subtotal, tax_amount, total>>

\* compute_totals(items, discount, tax_rate) -> (subtotal, tax_amount, total)
compute_totals(items, discount, tax_rate) ==
    LET subtotal == money(SumProducts(items), QtyScale)
        discount_amount == money(Min(Max(Or0(discount), 0), subtotal), 1)
        taxable == Max(subtotal - discount_amount, 0)
        tax_amount == money(taxable * Or0(tax_rate), 100)
        total == money(taxable + tax_amount, 1)
    IN  <<subtotal, tax_amount, total>>

----------------------------------------------------------------------------
(* Invoice store *)

Range(s) == {s[i] : i \in 1..Len(s)}

\* init_db() on a new invoice.db: both tables empty, no AUTOINCREMENT id used.
\* Column created_at (the store's clock) is left out: nothing reads it.
EmptyDb == [invoices |-> <<>>, items |-> <<>>, seq_invoices |-> 0, seq_items |-> 0]

\* Leaving "with get_conn() as conn" on a connection in autocommit mode:
\* whatever was executed stays.
conn_exit_autocommit(before, tx, raised) == tx

\* Leaving "with get_conn() as conn": Connection.__exit__ commits the open
\* transaction when the block ended normally and rolls it back when it raised.
conn_exit(before, tx, raised) == IF raised = "" THEN tx ELSE before

\* The VALUES tuple with the text fields stored as typed (no strip()).
header_row_nostrip(invoice_id, form, totals) ==
    [id |-> invoice_id,
     invoice_no |-> form.invoice_no,
     invoice_date |-> form.invoice_date,
     customer_name |-> form.customer_name,
     customer_email |-> form.customer_email,
     customer_phone |-> form.customer_phone,
     billing_address |-> form.billing_address,
     subtotal |-> totals[1],
     discount_amount |-> form.discount_amount,
     tax_rate |-> form.tax_rate,
     tax_amount |-> totals[2],
     total |-> totals[3],
     notes |-> form.notes]

\* The VALUES tuple of INSERT INTO invoices.
header_row(invoice_id, form, totals) ==
    [id |-> invoice_id,
     invoice_no |-> form.invoice_no,
     invoice_date |-> form.invoice_date,
     customer_name |-> strip(form.customer_name),
     customer_email |-> strip(form.customer_email),
     customer_phone |-> strip(form.customer_phone),
     billing_address |-> strip(form.billing_address),
     subtotal |-> totals[1],
     discount_amount |-> form.discount_amount,
     tax_rate |-> form.tax_rate,
     tax_amount |-> totals[2],
     total |-> totals[3],
     notes |-> strip(form.notes)]

\* The VALUES tuple of INSERT INTO items for one item of the list.
item_row(id, invoice_id, it) ==
    LET qty == Or0(Get(it, "quantity", None))
        price == Or0(Get(it, "unit_price", None))
    IN  [id |-> id,
         invoice_id |-> invoice_id,
         description |-> strip(Get(it, "description", <<>>)),
         quantity |-> qty,
         unit_price |-> price,
         line_total |-> money(qty * price, QtyScale)]

RECURSIVE insert_items(_, _, _)
\* The loop "for it in items: cur.execute(INSERT INTO items ...)".
insert_items(tx, invoice_id, items) ==
    IF items = <<>> THEN tx
    ELSE insert_items(
            [tx EXCEPT !.items = Append(@, item_row(tx.seq_items + 1, invoice_id, Head(items))),
                       !.seq_items = @ + 1],
            invoice_id, Tail(items))

\* Column invoice_no declared without UNIQUE.
violates_unique_never(d, invoice_no) == FALSE

\* "invoice_no TEXT UNIQUE": an INSERT of a number some row holds is refused.
violates_unique(d, invoice_no) ==
    \E r \in Range(d.invoices) : r.invoice_no = invoice_no

\* INSERT OR REPLACE in place of INSERT: the stored invoice of the same number
\* and (ON DELETE CASCADE) its items are removed first.
upsert_invoice_replace(d, form, items, fail) ==
    LET totals == compute_totals(items, form.discount_amount, form.tax_rate)
        Other(r) == r.invoice_no # form.invoice_no
        kept == SelectSeq(d.invoices, Other)
        Kept(r) == \E h \in Range(kept) : h.id = r.invoice_id
        invoice_id == d.seq_invoices + 1
        tx1 == [d EXCEPT !.invoices = Append(kept, header_row(invoice_id, form, totals)),
                         !.items = SelectSeq(@, Kept),
                         !.seq_invoices = invoice_id]
        done == IF fail = 0 THEN Len(items) ELSE fail - 1
        tx2 == insert_items(tx1, invoice_id, SubSeq(items, 1, done))
        raised == IF fail # 0 THEN "OperationalError" ELSE ""
    IN  [db |-> conn_exit(d, tx2, raised),
         raised |-> raised,
         invoice_id |-> IF raised = "" THEN invoice_id ELSE 0]

\* upsert_invoice(...) on store d.  fail = 0: the store takes every statement;
\* fail = k > 0: the INSERT of the k-th item raises (a storage error).
\* Gives the store afterwards, the exception raised ("" for none) and the
\* returned invoice_id.
upsert_invoice(d, form, items, fail) ==
    LET totals == compute_totals(items, form.discount_amount, form.tax_rate)
        duplicate == violates_unique(d, form.invoice_no)
        invoice_id == d.seq_invoices + 1
        tx1 == [d EXCEPT !.invoices = Append(@, header_row(invoice_id, form, totals)),
                         !.seq_invoices = invoice_id]
        done == IF fail = 0 THEN Len(items) ELSE fail - 1
        tx2 == insert_items(tx1, invoice_id, SubSeq(items, 1, done))
        raised == IF duplicate THEN "IntegrityError"
                  ELSE IF fail # 0 THEN "OperationalError"
                  ELSE ""
    IN  [db |-> conn_exit(d, IF duplicate THEN d ELSE tx2, raised),
         raised |-> raised,
         invoice_id |-> IF raised = "" THEN invoice_id ELSE 0]

\* a < b for dates <<year, month, day>>: the order of their ISO texts, which is
\* the order of datetime(invoice_date) and of pd.to_datetime.
DateLess(a, b) ==
    \/ a[1] < b[1]
    \/ a[1] = b[1] /\ a[2] < b[2]
    \/ a[1] = b[1] /\ a[2] = b[2] /\ a[3] < b[3]

\* ORDER BY datetime(invoice_date) DESC, id DESC: r comes before o.
ListedBefore(r, o) ==
    \/ DateLess(o.invoice_date, r.invoice_date)
    \/ r.invoice_date = o.invoice_date /\ r.id > o.id

RECURSIVE OrderBy(_)
\* The rows in the order of ListedBefore (ids are distinct, so it is total).
OrderBy(rows) ==
    IF rows = {} THEN <<>>
    ELSE LET first == CHOOSE r \in rows : \A o \in rows \ {r} : ListedBefore(r, o)
         IN  <<first>> \o OrderBy(rows \ {first})

\* The columns fetch_invoices_df selects.
ListingColumns ==
    {"id", "invoice_no", "invoice_date", "customer_name", "customer_email",
     "customer_phone", "subtotal", "discount_amount", "tax_rate", "tax_amount", "total"}

\* fetch_invoices_df(): every invoice, newest date first.
fetch_invoices_df(d) ==
    LET all == OrderBy(Range(d.invoices))
    IN  [i \in 1..Len(all) |-> [c \in ListingColumns |-> all[i][c]]]

\* fetch_invoice_full(invoice_id) -> (invoice, items); invoice is <<>> (the
\* empty dict) when no row has the id.  The items come in rowid order.
fetch_invoice_full(d, invoice_id) ==
    LET found == {r \in Range(d.invoices) : r.id = invoice_id}
        ItemOf(r) == r.invoice_id = invoice_id
        Columns(r) == [description |-> r.description, quantity |-> r.quantity,
                       unit_price |-> r.unit_price, line_total |-> r.line_total]
        rows == SelectSeq(d.items, ItemOf)
    IN  <<IF found = {} THEN <<>> ELSE CHOOSE r \in found : TRUE,
          [i \in 1..Len(rows) |-> Columns(rows[i])]>>

----------------------------------------------------------------------------
(* The Streamlit script: one action per user interaction, each a whole run *)

\* Lines 390-404: the listing with the filters that are given applied.
filtered_invoices_df(d, text, from, to) ==
    LET df0 == fetch_invoices_df(d)
        Mask(r) == \/ str_contains(r.invoice_no, text)
                   \/ str_contains(r.customer_name, text)
                   \/ str_contains(r.customer_email, text)
                   \/ str_contains(r.customer_phone, text)
        NotBefore(r) == ~DateLess(r.invoice_date, from)
        NotAfter(r) == ~DateLess(to, r.invoice_date)
        df1 == IF text # <<>> THEN SelectSeq(df0, Mask) ELSE df0
        df2 == IF from # <<>> THEN SelectSeq(df1, NotBefore) ELSE df1
    IN  IF to # <<>> THEN SelectSeq(df2, NotAfter) ELSE df2

\* The options of "Choose Invoice ID" after "-".
Options(df) == [i \in 1..Len(df) |-> df[i].id]

\* The end of every script run (lines 390-433): the listing is fetched and
\* filtered again, the selectbox keeps its choice while its options are the
\* same and falls back to "-" when they changed, and the chosen invoice is
\* fetched.
Render(d, text, from, to, sel) ==
    /\ invoices_df' = filtered_invoices_df(d, text, from, to)
    /\ sel_id' = IF Options(invoices_df') = Options(invoices_df) THEN sel ELSE 0
    /\ view' = IF sel_id' = 0 THEN <<>> ELSE fetch_invoice_full(d, sel_id')

\* "Add": the form's item is appended to the draft.
AddItem(desc, qty, unit) ==
    /\ Len(session_items) < MaxItems
    /\ session_items' = Append(session_items,
            [description |-> desc, quantity |-> qty, unit_price |-> unit])
    /\ message' = <<>>
    /\ Render(db, q, from_dt, to_dt, sel_id)
    /\ UNCHANGED <<db, q, from_dt, to_dt, args, ret>>

\* "Remove selected": st.session_state["items"].pop(int(rm_idx)), rm_idx from 0.
RemoveItem(rm_idx) ==
    /\ rm_idx \in 0..(Len(session_items) - 1)
    /\ session_items' = SubSeq(session_items, 1, rm_idx)
                        \o SubSeq(session_items, rm_idx + 2, Len(session_items))
    /\ message' = <<>>
    /\ Render(db, q, from_dt, to_dt, sel_id)
    /\ UNCHANGED <<db, q, from_dt, to_dt, args, ret>>

\* "Reset Form"
ResetForm ==
    /\ session_items' = <<>>
    /\ message' = <<>>
    /\ Render(db, q, from_dt, to_dt, sel_id)
    /\ UNCHANGED <<db, q, from_dt, to_dt, args, ret>>

\* The guard of the Save Invoice handler dropped.
HasNoItems_never(items) == FALSE

\* "if not st.session_state['items']"
HasNoItems(items) == items = <<>>

\* The draft kept after a successful save.
draft_after_save_kept(items, raised) == items

\* Lines 363-367: the draft is emptied after a successful save and kept when
\* upsert_invoice raised.
draft_after_save(items, raised) == IF raised = "" THEN <<>> ELSE items

MsgNoItems == <<"Add at least one line item before saving.">>
MsgDuplicate == <<"Invoice number already exists. Please change it and try again.">>
MsgSaved(invoice_no, invoice_id) == <<"Saved invoice", invoice_no, invoice_id>>
\* Any other exception leaves the handler: Streamlit shows it.
MsgException(raised) == <<"Exception", raised>>

\* "Save Invoice" with the sidebar's values in form.
SaveInvoice(form, fail) ==
    /\ fail \in 0..Len(session_items)
    /\ IF HasNoItems(session_items)
       THEN /\ message' = MsgNoItems
            /\ UNCHANGED <<db, session_items>>
       ELSE LET r == upsert_invoice(db, form, session_items, fail)
            IN  /\ db' = r.db
                /\ session_items' = draft_after_save(session_items, r.raised)
                /\ message' = IF r.raised = "" THEN MsgSaved(form.invoice_no, r.invoice_id)
                              ELSE IF r.raised = "IntegrityError" THEN MsgDuplicate
                              ELSE MsgException(r.raised)
    /\ Render(db', q, from_dt, to_dt, sel_id)
    /\ UNCHANGED <<q, from_dt, to_dt, args, ret>>

\* The filter widgets are set.
SetFilters(text, from, to) ==
    /\ <<text, from, to>> # <<q, from_dt, to_dt>>
    /\ q' = text
    /\ from_dt' = from
    /\ to_dt' = to
    /\ message' = <<>>
    /\ Render(db, text, from, to, sel_id)
    /\ UNCHANGED <<db, session_items, args, ret>>

\* An id of the listing is chosen in "Choose Invoice ID".
ViewInvoice(sel) ==
    /\ sel \in Range(Options(invoices_df))
    /\ sel # sel_id
    /\ message' = <<>>
    /\ Render(db, q, from_dt, to_dt, sel)
    /\ UNCHANGED <<db, session_items, q, from_dt, to_dt, args, ret>>

\* One call of compute_totals.
ComputeTotals ==
    /\ ret = <<>>
    /\ ret' = compute_totals(args.items, args.discount, args.tax_rate)
    /\ UNCHANGED <<db, session_items, message, q, from_dt, to_dt, invoices_df,
                   sel_id, view, args>>

----------------------------------------------------------------------------
(* Inputs *)

Jan31 == <<2024, 1, 31>>
Feb01 == <<2024, 2, 1>>
Dec31 == <<2023, 12, 31>>

InvoiceNos == {<<"A", "1">>, <<"B", "1">>}

\* What the user may have typed into the sidebar when Save Invoice is clicked:
\* padded texts with a discount of 3.00, above some subtotals, and another
\* number with plain texts and no discount.
FormA ==
    [invoice_no |-> <<"A", "1">>,
     invoice_date |-> Jan31,
     customer_name |-> <<" ", "J", "o", " ">>,
     customer_email |-> <<"J", "O", "@", "x", " ">>,
     customer_phone |-> <<" ", "1">>,
     billing_address |-> <<"a", " ", "b", " ">>,
     discount_amount |-> 300,
     tax_rate |-> 10,
     notes |-> <<" ", "n">>]
FormB ==
    [invoice_no |-> <<"B", "1">>,
     invoice_date |-> Jan31,
     customer_name |-> <<"a", "l">>,
     customer_email |-> <<"a", "@", "b">>,
     customer_phone |-> <<"1">>,
     billing_address |-> <<>>,
     discount_amount |-> 0,
     tax_rate |-> 0,
     notes |-> <<>>]
Forms == {FormA, FormB}

\* What the user may have typed into the item form: 0.5 x 0.01 (half a cent)
\* and 1.0 x 5.00.
ItemInputs == {<<<<" ", "a">>, 5, 1>>, <<<<"b">>, 10, 500>>}

\* The sidebar for the listing runs: two dates before and after Jan31.
ListForms ==
    [invoice_no : InvoiceNos,
     invoice_date : {Dec31, Jan31, Feb01},
     customer_name : {<<"J", "o">>},
     customer_email : {<<"J", "O", "@", "x">>, <<"a", "@", "b">>},
     customer_phone : {<<"1">>},
     billing_address : {<<>>},
     discount_amount : {0},
     tax_rate : {0},
     notes : {<<>>}]

Texts == {<<>>, <<"j", "o">>, <<"a", ".", "b">>}
FilterDates == {<<>>, Jan31}

\* Arguments of compute_totals: keys present, None or left out.
Quantities == {None, 5, 10, 20}
Prices == {None, 5, 500, 1000}
TotalsItems ==
    [quantity : Quantities, unit_price : Prices]
    \cup [quantity : Quantities] \cup [unit_price : Prices]
Discounts == {None, -100, 0, 300, 5000}
TaxRates == {None, 0, 10}

RECURSIVE SeqsUpTo(_, _)
\* The sequences over S of length at most n.
SeqsUpTo(S, n) ==
    IF n = 0 THEN {<<>>}
    ELSE LET shorter == SeqsUpTo(S, n - 1)
         IN  shorter \cup {Append(s, x) : s \in shorter, x \in S}

----------------------------------------------------------------------------
(* Specifications *)

Init ==
    /\ db = EmptyDb
    /\ session_items = <<>>
    /\ message = <<>>
    /\ q = <<>>
    /\ from_dt = <<>>
    /\ to_dt = <<>>
    /\ invoices_df = <<>>
    /\ sel_id = 0
    /\ view = <<>>
    /\ args = <<>>
    /\ ret = <<>>

\* The form: drafting, saving (with storage errors) and viewing.
Next ==
    \/ \E it \in ItemInputs : AddItem(it[1], it[2], it[3])
    \/ \E rm_idx \in 0..(MaxItems - 1) : RemoveItem(rm_idx)
    \/ ResetForm
    \/ \E form \in Forms, fail \in 0..MaxItems : SaveInvoice(form, fail)
    \/ \E sel \in 1..Cardinality(InvoiceNos) : ViewInvoice(sel)

Spec == Init /\ [][Next]_vars

\* The listing: invoices of several dates and customers, saved without
\* storage errors, and every combination of the filters.
NextList ==
    \/ AddItem(<<"b">>, 10, 500)
    \/ \E form \in ListForms : SaveInvoice(form, 0)
    \/ \E text \in Texts, from \in FilterDates, to \in FilterDates :
            SetFilters(text, from, to)

SpecList == Init /\ [][NextList]_vars

\* compute_totals as a function: any arguments, one call.
InitTotals ==
    /\ db = EmptyDb
    /\ session_items = <<>>
    /\ message = <<>>
    /\ q = <<>>
    /\ from_dt = <<>>
    /\ to_dt = <<>>
    /\ invoices_df = <<>>
    /\ sel_id = 0
    /\ view = <<>>
    /\ args \in [items : SeqsUpTo(TotalsItems, MaxItems),
                 discount : Discounts,
                 tax_rate : TaxRates]
    /\ ret = <<>>

NextTotals == ComputeTotals

SpecTotals == InitTotals /\ [][NextTotals]_vars

----------------------------------------------------------------------------
(* Claims *)

\* The item rows of invoice id in store d, in rowid order.
ItemRowsOf(d, id) ==
    LET Mine(r) == r.invoice_id = id
    IN  SelectSeq(d.items, Mine)

Ids(d) == {r.id : r \in Range(d.invoices)}

\* Store after is store before plus one invoice: one more header row, and
\* after the old item rows exactly one row per item of the list, in order,
\* with the item's quantity and unit price.
SavedWhole(before, after, items) ==
    /\ Len(after.invoices) = Len(before.invoices) + 1
    /\ SubSeq(after.invoices, 1, Len(before.invoices)) = before.invoices
    /\ LET h == after.invoices[Len(after.invoices)]
           new == ItemRowsOf(after, h.id)
       IN  /\ after.items = before.items \o new
           /\ Len(new) = Len(items)
           /\ \A k \in 1..Len(new) :
                /\ new[k].quantity = items[k].quantity
                /\ new[k].unit_price = items[k].unit_price

\* C1: a save is all-or-nothing.  In every reachable state no item row refers
\* to a header that is not stored; every step leaves the store as it was or
\* adds one header together with exactly the rows of the draft it was saved
\* with; and a save whose k-th item insert raises leaves the store as it was.
C1_SaveAllOrNothing ==
    /\ [](\A it \in Range(db.items) : it.invoice_id \in Ids(db))
    /\ [][db' = db \/ SavedWhole(db, db', session_items)]_vars
    /\ [][\A form \in Forms, fail \in 1..MaxItems :
            SaveInvoice(form, fail) => db' = db]_vars

\* A save failed on an item insert while an earlier invoice is stored, and
\* the draft (two items, so the header and the first item had been executed)
\* is still there.
C1_Witness ==
    /\ message = MsgException("OperationalError")
    /\ Len(db.invoices) = 1
    /\ Len(session_items) = 2

\* C2: invoice numbers are unique in every reachable state; a save of a
\* number that is stored shows the duplicate-number message and leaves
\* headers and items exactly as they were.
C2_UniqueInvoiceNo ==
    /\ [](\A i, j \in 1..Len(db.invoices) :
            db.invoices[i].invoice_no = db.invoices[j].invoice_no => i = j)
    /\ [][\A form \in Forms, fail \in 0..MaxItems :
            (/\ SaveInvoice(form, fail)
             /\ session_items # <<>>
             /\ \E r \in Range(db.invoices) : r.invoice_no = form.invoice_no)
            => (message' = MsgDuplicate /\ db' = db)]_vars

\* The duplicate-number message is shown while an invoice is stored.
C2_Witness ==
    /\ message = MsgDuplicate
    /\ db.invoices # <<>>

\* C3: a save with an empty draft is rejected before the store is touched,
\* and every stored invoice has at least one item row.
C3_EmptyItemListRejected ==
    /\ [](\A h \in Range(db.invoices) : ItemRowsOf(db, h.id) # <<>>)
    /\ [][\A form \in Forms, fail \in 0..MaxItems :
            (SaveInvoice(form, fail) /\ session_items = <<>>)
            => (message' = MsgNoItems /\ db' = db)]_vars

\* The rejection was shown, with an empty draft.
C3_Witness ==
    /\ message = MsgNoItems
    /\ session_items = <<>>

RECURSIVE SumLineTotals(_)
SumLineTotals(rows) ==
    IF rows = <<>> THEN 0 ELSE Head(rows).line_total + SumLineTotals(Tail(rows))

\* C4: the discount recorded in every stored header lies between 0 and the
\* header's subtotal (it is the applied, clamped discount).
C4_StoredDiscountClamped ==
    \A h \in Range(db.invoices) :
        0 <= h.discount_amount /\ h.discount_amount <= h.subtotal

\* C5: every stored header's subtotal is the sum of the line_total values of
\* its stored item rows.
C5_SubtotalIsSumOfLineTotals ==
    \A h \in Range(db.invoices) :
        h.subtotal = SumLineTotals(ItemRowsOf(db, h.id))

\* A text as typed, or with leading and trailing whitespace removed.
Text(stripped, s) == IF stripped THEN strip(s) ELSE s

\* The header fields and the items a saved invoice is read back with are the
\* ones supplied, the texts as typed or stripped.
ReadBack(d, id, form, items, stripped) ==
    LET got == fetch_invoice_full(d, id)
        T(s) == Text(stripped, s)
    IN  /\ got[1] # <<>>
        /\ got[1].invoice_no = form.invoice_no
        /\ got[1].invoice_date = form.invoice_date
        /\ got[1].customer_name = T(form.customer_name)
        /\ got[1].customer_email = T(form.customer_email)
        /\ got[1].customer_phone = T(form.customer_phone)
        /\ got[1].billing_address = T(form.billing_address)
        /\ got[1].notes = T(form.notes)
        /\ got[1].discount_amount = form.discount_amount
        /\ got[1].tax_rate = form.tax_rate
        /\ Len(got[2]) = Len(items)
        /\ \A k \in 1..Len(items) :
            /\ got[2][k].description = T(items[k].description)
            /\ got[2][k].quantity = items[k].quantity
            /\ got[2][k].unit_price = items[k].unit_price

\* The handler showed "Saved invoice ... (ID n)"; n.
IsSaved(m) == Len(m) = 3 /\ m[1] = "Saved invoice"
SavedId(m) == m[3]

\* C7 as claimed: after a successful save, getInvoice of the returned id gives
\* the header fields and the items exactly as supplied.
C7_RoundTripAsSupplied ==
    [][\A form \in Forms :
        (SaveInvoice(form, 0) /\ IsSaved(message'))
        => ReadBack(db', SavedId(message'), form, session_items, FALSE)]_vars

\* C7 amended: after a successful save, getInvoice of the returned id gives
\* invoice number, date, discount and tax rate as supplied, customer name,
\* email, phone, billing address and notes as supplied with leading and
\* trailing whitespace removed, and the items in the order supplied with the
\* supplied quantity and unit price and the description with leading and
\* trailing whitespace removed; and no later step changes what getInvoice
\* gives for a stored id.
C7_RoundTripStripped ==
    /\ [][\A form \in Forms :
            (SaveInvoice(form, 0) /\ IsSaved(message'))
            => ReadBack(db', SavedId(message'), form, session_items, TRUE)]_vars
    /\ [][\A id \in Ids(db) :
            fetch_invoice_full(db', id) = fetch_invoice_full(db, id)]_vars

\* Invoice 1, saved from FormA with two different items, is viewed after a
\* second invoice was saved: it shows the stripped name and its items in the
\* order of the draft.
C7_Witness ==
    /\ Len(db.invoices) = 2
    /\ sel_id = 1
    /\ view[1].customer_name = <<"J", "o">>
    /\ Len(view[2]) = 2
    /\ view[2][1].description = <<"b">>
    /\ view[2][2].description = <<"a">>

IsPrefix(s, t) == Len(s) <= Len(t) /\ SubSeq(t, 1, Len(s)) = s

\* C9: the store is append-only.  Every step keeps every stored header row
\* and item row as it is and where it is, so getInvoice of a stored id gives
\* the same header and items afterwards; every header a step adds has an id
\* above every id stored before, and so has the id a successful save returns.
C9_AppendOnly ==
    [][/\ IsPrefix(db.invoices, db'.invoices)
       /\ IsPrefix(db.items, db'.items)
       /\ \A id \in Ids(db) :
            fetch_invoice_full(db', id) = fetch_invoice_full(db, id)
       /\ \A id \in Ids(db') \ Ids(db) : \A old \in Ids(db) : id > old
       /\ (IsSaved(message') /\ db' # db)
            => (/\ SavedId(message') \in Ids(db') \ Ids(db)
                /\ \A old \in Ids(db) : SavedId(message') > old)]_vars

\* Invoice 1 is on view, unchanged, after a second invoice was saved and a
\* third save failed on its number.
C9_Witness ==
    /\ Len(db.invoices) = 2
    /\ db.invoices[2].id > db.invoices[1].id
    /\ sel_id = 1
    /\ view[1] = db.invoices[1]
    /\ message = MsgDuplicate

\* The draft item list protocol of one step, the stored descriptions being
\* as typed or stripped: add, remove and reset leave the store alone; a successful
\* save stores one row per draft item, in order, with the draft's description,
\* quantity and unit price, and empties the draft; a save right after a
\* successful one is rejected for its empty item list and stores nothing; a
\* save refused for its number keeps the draft.
DraftProtocol(stripped) ==
    /\ \A it \in ItemInputs : AddItem(it[1], it[2], it[3]) => db' = db
    /\ \A rm_idx \in 0..(MaxItems - 1) : RemoveItem(rm_idx) => db' = db
    /\ ResetForm => db' = db
    /\ \A form \in Forms, fail \in 0..MaxItems :
        SaveInvoice(form, fail) =>
            /\ IsSaved(message') =>
                LET rows == ItemRowsOf(db', SavedId(message'))
                IN  /\ Len(rows) = Len(session_items)
                    /\ \A k \in 1..Len(rows) :
                        /\ rows[k].description = Text(stripped, session_items[k].description)
                        /\ rows[k].quantity = session_items[k].quantity
                        /\ rows[k].unit_price = session_items[k].unit_price
                    /\ session_items' = <<>>
            /\ IsSaved(message) => (message' = MsgNoItems /\ db' = db)
            /\ message' = MsgDuplicate => session_items' = session_items

\* C10 as claimed: the draft protocol, a successful save storing exactly the
\* draft list.
C10_DraftStoredAsTyped == [][DraftProtocol(FALSE)]_vars

\* C10 amended: the draft protocol, a successful save storing the draft list
\* as it was at the moment of the save with leading and trailing whitespace
\* removed from each description (same items, same order, same quantity and
\* unit price).
C10_DraftStoredStripped == [][DraftProtocol(TRUE)]_vars

\* A save was refused for its number while an invoice is stored, and the
\* draft of two items is still there.
C10_Witness ==
    /\ message = MsgDuplicate
    /\ Len(session_items) = 2
    /\ Len(db.invoices) = 1

\* A quantity or unit price that is missing or null counts as 0.
Present(i, key) == IF key \in DOMAIN i /\ i[key] # None THEN i[key] ELSE 0

RECURSIVE ExactSum(_)
\* The sum of quantity x unit price over the items, in cents / QtyScale.
ExactSum(items) ==
    IF items = <<>> THEN 0
    ELSE Present(Head(items), "quantity") * Present(Head(items), "unit_price")
         + ExactSum(Tail(items))

\* c cents is num/den cents rounded to the nearest cent, a half cent going up.
IsRound2(c, num, den) == 2 * num - den < 2 * den * c /\ 2 * den * c <= 2 * num + den

Clamp(x, lo, hi) == IF x < lo THEN lo ELSE IF x > hi THEN hi ELSE x

\* The example of the specification: 2 x 10.00 and 1 x 5.00, discount 3.00,
\* tax 10 %.
ExampleArgs ==
    [items |-> <<[quantity |-> 20, unit_price |-> 1000],
                 [quantity |-> 10, unit_price |-> 500]>>,
     discount |-> 300,
     tax_rate |-> 10]

IsSubstringCI(text, s) ==
    \E i \in 1..(Len(s) - Len(text) + 1) :
        \A k \in 1..Len(text) : lower(text[k]) = lower(s[i + k - 1])

\* Stored header r passes every filter that is given.
PassesFilters(r) ==
    /\ \/ q = <<>>
       \/ IsSubstringCI(q, r.invoice_no)
       \/ IsSubstringCI(q, r.customer_name)
       \/ IsSubstringCI(q, r.customer_email)
       \/ IsSubstringCI(q, r.customer_phone)
    /\ from_dt = <<>> \/ ~DateLess(r.invoice_date, from_dt)
    /\ to_dt = <<>> \/ ~DateLess(to_dt, r.invoice_date)

\* C8: the listing holds exactly the stored invoices that pass every given
\* filter (text as a case-insensitive substring), each once, by invoice date
\* descending and for equal dates by id descending.
C8_ListingExactAndOrdered ==
    /\ {invoices_df[i].id : i \in 1..Len(invoices_df)}
         = {r.id : r \in {h \in Range(db.invoices) : PassesFilters(h)}}
    /\ \A i, j \in 1..Len(invoices_df) :
        i < j =>
            \/ DateLess(invoices_df[j].invoice_date, invoices_df[i].invoice_date)
            \/ /\ invoices_df[j].invoice_date = invoices_df[i].invoice_date
               /\ invoices_df[j].id < invoices_df[i].id

====
